---------------------------- MODULE Spec2Model ----------------------------
(***************************************************************************)
(* Model of client/api.go of coda-go-client: the Event Registry            *)
(* (Client.SubscriptionEvents, createEvent, getEvent, NewClient), the      *)
(* subscription engine (Client.subscribe) with the goroutines that call    *)
(* the Subscribe... API, the requesters of an unsubscribe, the consumers   *)
(* of event.Response and of the hub's channel, and the query facade        *)
(* (makeHttpRequest, getResponse, getUniversal, getUniversalCh).           *)
(***************************************************************************)
EXTENDS Naturals, Sequences, FiniteSets

\* ------------------------------------------------------------ bounds
\* Loop iterations (default branches) the engines may start, all together.
MaxCycles == 2
\* The same, in the specification with fairness.
MaxFairCycles == 1
\* The same, in the specification of the engines left to run.
MaxRunCycles == 3
\* Events on which an unsubscribe is requested.
MaxRequests == 1
\* Capacity of the hub's SubscriptionData channel.
HubCap == 1

\* ------------------------------------------------------------ data
\* The goroutines that call the Subscribe... API.
Procs == {1, 2}

\* The keys of subscriptionEventsQueries.
Types == {"NewBlock", "SyncUpdate", "BlockConfirmation"}

subscriptionEventsQueries ==
    [t \in Types |->
        CASE t = "NewBlock" -> "NewBlockSubscriptionQuery"
          [] t = "SyncUpdate" -> "SyncUpdateSubscriptionQuery"
          [] t = "BlockConfirmation" -> "BlockConfirmationSubscriptionQuery"]

\* The types whose Subscribe... function the callers use.
CallTypes == {"NewBlock", "SyncUpdate"}

\* c.Endpoint.
Endpoint == "http://daemon"

\* A nil *types.Event, and an absent key of the registry map.
Nil == 0

\* The calls of the query facade (getUniversal, getUniversalCh).
Calls == {1, 2}

\* The eventsIt lists NewClient is called with: one type is created by NewClient,
\* the others by getEvent.
EventsItChoices == { <<"NewBlock">> }

VARIABLES
    heap,                \* the allocated *types.Event objects, by address 1..Len(heap)
    SubscriptionEvents,  \* c.SubscriptionEvents: type name -> address, or Nil
    hub,                 \* c.hub # nil
    hubChan,             \* the buffer of c.hub.SubscriptionData
    hubOut,              \* what the hub's consumer has received, in order
    Response,            \* per event: what the consumer of event.Response received
    unsub,               \* per event: the state of the code requesting an unsubscribe
    pc,                  \* per goroutine: its position
    arg,                 \* per goroutine: the type name given to getEvent
    event,               \* per goroutine: the event it holds (address or Nil)
    ctxDone,             \* per goroutine: ctx.Done() of its context is closed
    conn,                \* per goroutine: the websocket connections it holds open
    err3,                \* per goroutine: websocket.JSON.Receive failed in this cycle
    tmp,                 \* per goroutine: event.Count as loaded by Count += 1
    cycles,              \* per goroutine: loop iterations started
    crashed,             \* the process has ended: a fatal error of the runtime
                         \* (unsynchronised map access) or log.Fatalln
    calls                \* per call of getUniversal / getUniversalCh: its state

vars == << heap, SubscriptionEvents, hub, hubChan, hubOut, Response, unsub, pc, arg,
           event, ctxDone, conn, err3, tmp, cycles, crashed, calls >>

\* ------------------------------------------------------------ registry
\* Mutant of createEvent: the event is created subscribed.
createEventSubscribed(t) ==
    [ Type |-> t, Query |-> subscriptionEventsQueries[t],
      Subscribed |-> TRUE, Count |-> 0 ]

createEvent(t) ==
    [ Type |-> t, Query |-> subscriptionEventsQueries[t],
      Subscribed |-> FALSE, Count |-> 0 ]

\* The heap and the map NewClient builds from eventsIt.
RECURSIVE NewClientHeap(_)
NewClientHeap(eventsIt) ==
    IF eventsIt = <<>> THEN <<>>
    ELSE Append(NewClientHeap(SubSeq(eventsIt, 1, Len(eventsIt) - 1)),
                createEvent(eventsIt[Len(eventsIt)]))

NewClientMap(eventsIt) ==
    [t \in Types |->
        IF \E i \in 1..Len(eventsIt) : eventsIt[i] = t
        THEN CHOOSE i \in 1..Len(eventsIt) :
                 /\ eventsIt[i] = t
                 /\ \A j \in (i+1)..Len(eventsIt) : eventsIt[j] # t
        ELSE Nil]

\* A call not made yet. pc: the position of the goroutine running getResponse;
\* ch: the call has a channel (getUniversalCh); buf, closed: the channel's buffer
\* and whether it is closed; got, done: what the consumer of the channel received
\* and whether it has seen the channel closed; err: the error getResponse holds;
\* failed: what failed in the call; ret: what getResponse returned.
NoCall ==
    [ pc |-> "idle", ch |-> FALSE, buf |-> <<>>, closed |-> FALSE, got |-> <<>>,
      done |-> FALSE, err |-> "nil", failed |-> "none", ret |-> <<>> ]

Init ==
    /\ \E eventsIt \in EventsItChoices :
          /\ heap = NewClientHeap(eventsIt)
          /\ SubscriptionEvents = NewClientMap(eventsIt)
          /\ Response = [i \in 1..Len(eventsIt) |-> <<>>]
          /\ unsub = [i \in 1..Len(eventsIt) |-> "none"]
    /\ hub \in BOOLEAN
    /\ hubChan = <<>>
    /\ hubOut = <<>>
    /\ pc = [p \in Procs |-> "idle"]
    /\ arg = [p \in Procs |-> ""]
    /\ event = [p \in Procs |-> Nil]
    /\ ctxDone = [p \in Procs |-> FALSE]
    /\ conn = [p \in Procs |-> 0]
    /\ err3 = [p \in Procs |-> FALSE]
    /\ tmp = [p \in Procs |-> 0]
    /\ cycles = [p \in Procs |-> 0]
    /\ crashed = FALSE
    /\ calls = [q \in Calls |-> NoCall]


\* ------------------------------------------------------------ helpers
Terminated(p) == pc[p] \in {"ret_nil", "ret_dial", "ret_unsub", "ret_cancel"}

\* Goroutines inside getEvent (between its map read and its return).
InGetEvent(p) == pc[p] \in {"getEvent", "insert"}

\* Mutant of AckSenders: the channels of all events taken for one.
AckSendersAnyEvent(e) == {q \in Procs : pc[q] = "ack"}

\* Engines blocked in `event.Unsubscribe <- true` on event e.
AckSenders(e) == {q \in Procs : pc[q] = "ack" /\ event[q] = e}

\* Loop iterations started so far, by all engines.
RECURSIVE CyclesOf(_)
CyclesOf(ps) ==
    IF ps = {} THEN 0
    ELSE LET q == CHOOSE q \in ps : TRUE IN cycles[q] + CyclesOf(ps \ {q})

\* Inside subscribe, not yet returned.
InSubscribe(p) ==
    pc[p] \in {"subscribe", "select", "dial", "send", "recv", "close", "count",
               "deliver", "sleep", "ack"}

\* A sender is blocked on e's Unsubscribe channel, for the engine p to receive
\* from: the requester, or another engine's acknowledgment.
UnsubscribeReady(p, e) == unsub[e] = "sending" \/ AckSenders(e) \ {p} # {}

\* Mutant of CaseUnsubscribe: the select has no `case <-event.Unsubscribe`.
CaseUnsubscribeNever(p) == FALSE

\* Mutant of CaseCtxDone: the select has no `case <-ctx.Done()`.
CaseCtxDoneNever(p) == FALSE

\* The readiness of the select's two communication cases.
CaseUnsubscribe(p) == UnsubscribeReady(p, event[p])

CaseCtxDone(p) == ctxDone[p]
\* Go's select runs default only when no communication case is ready, and
\* otherwise picks one of the ready cases at random.
CaseDefault(p) == ~CaseUnsubscribe(p) /\ ~CaseCtxDone(p)

\* Mutant of CountInc: `event.Count = 1` written for `event.Count += 1`.
CountIncAssign(n) == 1

\* event.Count += 1, on the value loaded.
CountInc(n) == n + 1

\* m after websocket.JSON.Receive: the decoded frame, or the zero value.
ReceivedData(failed) == IF failed THEN "zero" ELSE "msg"

\* responseData of the cycle goroutine p is in.
responseData(p) ==
    [ Host |-> Endpoint, Type |-> heap[event[p]].Type,
      Data |-> ReceivedData(err3[p]), cycle |-> <<p, cycles[p]>> ]

\* Mutant of ToHub: line 219 takes every client for one without a hub.
ToHubNever == FALSE

\* The destination line 219 chooses.
ToHub == hub

\* Mutant of HubSend: the send on the hub's channel loses its value.
HubSendLossy(ch, m) == ch

\* Line 222: `c.hub.SubscriptionData <- responseData` on the channel's buffer.
HubSend(ch, m) == Append(ch, m)

\* Mutant of HubFull: the send on the hub's channel never blocks.
HubFullNever(ch) == FALSE

\* Line 222: the send blocks while the channel's buffer is full.
HubFull(ch) == Len(ch) >= HubCap

\* Mutant of ResponseSend: the consumer gets the newest payload first.
ResponseSendFirst(s, m) == <<m>> \o s

\* Line 220: `event.Response <- responseData`, on what the consumer has received.
ResponseSend(s, m) == Append(s, m)

\* ------------------------------------------------------------ API calls
\* SubscribeForEvent(ctx, nil).
SubscribeForEvent(p) ==
    /\ ~crashed
    /\ pc[p] = "idle"
    /\ pc' = [pc EXCEPT ![p] = "subscribe"]
    /\ event' = [event EXCEPT ![p] = Nil]
    /\ UNCHANGED << calls, heap, SubscriptionEvents, hub, hubChan, hubOut, Response, unsub,
                    arg, ctxDone, conn, err3, tmp, cycles, crashed >>

\* SubscribeForNewBlocks / SubscribeForSyncUpdates / SubscribeForBlockConfirmations:
\* the call of getEvent(t) begins.
SubscribeFor(p, t) ==
    /\ ~crashed
    /\ pc[p] = "idle"
    /\ pc' = [pc EXCEPT ![p] = "getEvent"]
    /\ arg' = [arg EXCEPT ![p] = t]
    /\ UNCHANGED << calls, heap, SubscriptionEvents, hub, hubChan, hubOut, Response, unsub,
                    event, ctxDone, conn, err3, tmp, cycles, crashed >>

\* Mutant of GetEventFound: getEvent creates an event on every call.
GetEventFoundNever(t) == FALSE

\* getEvent, line 45: the map read.
GetEventFound(t) == SubscriptionEvents[t] # Nil

GetEventLookup(p) ==
    /\ ~crashed
    /\ pc[p] = "getEvent"
    /\ IF GetEventFound(arg[p])
       THEN /\ event' = [event EXCEPT ![p] = SubscriptionEvents[arg[p]]]
            /\ pc' = [pc EXCEPT ![p] = "subscribe"]
       ELSE /\ pc' = [pc EXCEPT ![p] = "insert"]
            /\ UNCHANGED event
    /\ UNCHANGED << calls, heap, SubscriptionEvents, hub, hubChan, hubOut, Response, unsub,
                    arg, ctxDone, conn, err3, tmp, cycles, crashed >>

\* getEvent, lines 48-50: createEvent and the map write.
GetEventInsert(p) ==
    /\ ~crashed
    /\ pc[p] = "insert"
    /\ heap' = Append(heap, createEvent(arg[p]))
    /\ Response' = Append(Response, <<>>)
    /\ unsub' = Append(unsub, "none")
    /\ SubscriptionEvents' = [SubscriptionEvents EXCEPT ![arg[p]] = Len(heap) + 1]
    /\ event' = [event EXCEPT ![p] = Len(heap) + 1]
    /\ pc' = [pc EXCEPT ![p] = "subscribe"]
    /\ UNCHANGED << calls, hub, hubChan, hubOut, arg, ctxDone, conn, err3, tmp,
                    cycles, crashed >>

\* The map is not synchronised: a write while another goroutine is inside getEvent
\* is a data race, and the runtime may throw "concurrent map writes" /
\* "concurrent map read and map write", which ends the process.
MapRaceFatal(p) ==
    /\ ~crashed
    /\ pc[p] = "insert"
    /\ \E q \in Procs \ {p} : InGetEvent(q)
    /\ crashed' = TRUE
    /\ UNCHANGED << calls, heap, SubscriptionEvents, hub, hubChan, hubOut, Response, unsub,
                    pc, arg, event, ctxDone, conn, err3, tmp, cycles >>

\* The places where an engine waits (for its caller, a channel, the network or the
\* timer).
Waiting(p) == pc[p] \in {"subscribe", "select", "recv", "deliver", "sleep"}

\* The holder of p's context cancels it. ctx.Done() is read by the select only, so
\* a cancellation takes effect as if it came while the engine waits.
Cancel(p) ==
    /\ ~crashed
    /\ Waiting(p)
    /\ ~ctxDone[p]
    /\ ctxDone' = [ctxDone EXCEPT ![p] = TRUE]
    /\ UNCHANGED << calls, heap, SubscriptionEvents, hub, hubChan, hubOut, Response, unsub,
                    pc, arg, event, conn, err3, tmp, cycles, crashed >>

\* ------------------------------------------------------------ subscribe
\* Mutant of IsNil: the nil check left out.
IsNilNever(e) == FALSE

\* Line 168: event == nil.
IsNil(e) == e = Nil

\* Lines 168-171: the nil check.
SubscribeEntry(p) ==
    /\ ~crashed
    /\ pc[p] = "subscribe"
    /\ pc' = [pc EXCEPT ![p] = IF IsNil(event[p]) THEN "ret_nil" ELSE "select"]
    /\ UNCHANGED << calls, heap, SubscriptionEvents, hub, hubChan, hubOut, Response, unsub,
                    arg, event, ctxDone, conn, err3, tmp, cycles, crashed >>

\* Lines 176-184: the select takes default; event.Subscribed = true.
SelectDefault(p, n) ==
    /\ ~crashed
    /\ pc[p] = "select"
    /\ CaseDefault(p)
    /\ CyclesOf(Procs) < n
    /\ heap' = [heap EXCEPT ![event[p]].Subscribed = TRUE]
    /\ cycles' = [cycles EXCEPT ![p] = @ + 1]
    /\ pc' = [pc EXCEPT ![p] = "dial"]
    /\ UNCHANGED << calls, SubscriptionEvents, hub, hubChan, hubOut, Response, unsub,
                    arg, event, ctxDone, conn, err3, tmp, crashed >>

\* Lines 225-226: the select receives from event.Unsubscribe, from the requester
\* or from another engine of the same event blocked in its acknowledgment.
SelectUnsubscribe(p) ==
    /\ ~crashed
    /\ pc[p] = "select"
    /\ CaseUnsubscribe(p)
    /\ \/ /\ unsub[event[p]] = "sending"
          /\ unsub' = [unsub EXCEPT ![event[p]] = "sent"]
          /\ pc' = [pc EXCEPT ![p] = "ack"]
       \/ /\ \E q \in AckSenders(event[p]) \ {p} :
                pc' = [pc EXCEPT ![p] = "ack", ![q] = "ret_unsub"]
          /\ UNCHANGED unsub
    /\ UNCHANGED << calls, heap, SubscriptionEvents, hub, hubChan, hubOut, Response,
                    arg, event, ctxDone, conn, err3, tmp, cycles, crashed >>

\* Lines 229-230: the select receives from ctx.Done().
SelectCtxDone(p) ==
    /\ ~crashed
    /\ pc[p] = "select"
    /\ CaseCtxDone(p)
    /\ pc' = [pc EXCEPT ![p] = "ret_cancel"]
    /\ UNCHANGED << calls, heap, SubscriptionEvents, hub, hubChan, hubOut, Response, unsub,
                    arg, event, ctxDone, conn, err3, tmp, cycles, crashed >>

\* Where the engine goes when websocket.Dial fails (lines 186-189).
AfterDialError == "ret_dial"

\* Lines 185-189: websocket.Dial.
Dial(p) ==
    /\ ~crashed
    /\ pc[p] = "dial"
    /\ \/ /\ conn' = [conn EXCEPT ![p] = @ + 1]
          /\ pc' = [pc EXCEPT ![p] = "send"]
       \/ /\ pc' = [pc EXCEPT ![p] = AfterDialError]
          /\ UNCHANGED conn
    /\ UNCHANGED << calls, heap, SubscriptionEvents, hub, hubChan, hubOut, Response, unsub,
                    arg, event, ctxDone, err3, tmp, cycles, crashed >>

\* Lines 191-201: websocket.JSON.Send returns. Its error err2 is logged and read by
\* nothing: a failed send and a successful one continue alike.
Send(p) ==
    /\ ~crashed
    /\ pc[p] = "send"
    /\ pc' = [pc EXCEPT ![p] = "recv"]
    /\ UNCHANGED << calls, heap, SubscriptionEvents, hub, hubChan, hubOut, Response, unsub,
                    arg, event, ctxDone, conn, err3, tmp, cycles, crashed >>

\* Lines 203-209: websocket.JSON.Receive; its error is logged only.
Receive(p) ==
    /\ ~crashed
    /\ pc[p] = "recv"
    /\ \E failed \in BOOLEAN : err3' = [err3 EXCEPT ![p] = failed]
    /\ pc' = [pc EXCEPT ![p] = "close"]
    /\ UNCHANGED << calls, heap, SubscriptionEvents, hub, hubChan, hubOut, Response, unsub,
                    arg, event, ctxDone, conn, tmp, cycles, crashed >>

\* Mutant of connClose: conn.Close() left out.
connCloseNever(n) == n

\* Line 210: conn.Close(), on the number of connections held.
connClose(n) == n - 1

\* Lines 210-218: conn.Close(), responseData is built, and event.Count is loaded.
Close(p) ==
    /\ ~crashed
    /\ pc[p] = "close"
    /\ conn' = [conn EXCEPT ![p] = connClose(@)]
    /\ tmp' = [tmp EXCEPT ![p] = heap[event[p]].Count]
    /\ pc' = [pc EXCEPT ![p] = "count"]
    /\ UNCHANGED << calls, heap, SubscriptionEvents, hub, hubChan, hubOut, Response, unsub,
                    arg, event, ctxDone, err3, cycles, crashed >>

\* Line 218: event.Count is stored.
Count(p) ==
    /\ ~crashed
    /\ pc[p] = "count"
    /\ heap' = [heap EXCEPT ![event[p]].Count = CountInc(tmp[p])]
    /\ tmp' = [tmp EXCEPT ![p] = 0]
    /\ pc' = [pc EXCEPT ![p] = "deliver"]
    /\ UNCHANGED << calls, SubscriptionEvents, hub, hubChan, hubOut, Response, unsub,
                    arg, event, ctxDone, conn, err3, cycles, crashed >>

\* Lines 219-223: the blocking send of responseData. event.Response is unbuffered:
\* the send completes when its consumer receives.
Deliver(p) ==
    /\ ~crashed
    /\ pc[p] = "deliver"
    /\ IF ToHub
       THEN /\ ~HubFull(hubChan)
            /\ hubChan' = HubSend(hubChan, responseData(p))
            /\ UNCHANGED Response
       ELSE /\ Response' = [Response EXCEPT
                                ![event[p]] = ResponseSend(@, responseData(p))]
            /\ UNCHANGED hubChan
    /\ err3' = [err3 EXCEPT ![p] = FALSE]
    /\ pc' = [pc EXCEPT ![p] = "sleep"]
    /\ UNCHANGED << calls, heap, SubscriptionEvents, hub, hubOut, unsub,
                    arg, event, ctxDone, conn, tmp, cycles, crashed >>

\* Line 224: time.Sleep returns.
Sleep(p) ==
    /\ ~crashed
    /\ pc[p] = "sleep"
    /\ pc' = [pc EXCEPT ![p] = "select"]
    /\ UNCHANGED << calls, heap, SubscriptionEvents, hub, hubChan, hubOut, Response, unsub,
                    arg, event, ctxDone, conn, err3, tmp, cycles, crashed >>

\* Mutant of AckReady: the acknowledgment needs no receiver (a buffered send).
AckReadyAlways(e) == TRUE

\* Line 227, on the unbuffered channel of line 38: the send completes when the
\* requester is receiving.
AckReady(e) == unsub[e] = "receiving"

\* Lines 227-228: the acknowledgment `event.Unsubscribe <- true` is received by the
\* requester, and the engine returns.
Ack(p) ==
    /\ ~crashed
    /\ pc[p] = "ack"
    /\ AckReady(event[p])
    /\ unsub' = [unsub EXCEPT ![event[p]] = "acked"]
    /\ pc' = [pc EXCEPT ![p] = "ret_unsub"]
    /\ UNCHANGED << calls, heap, SubscriptionEvents, hub, hubChan, hubOut, Response,
                    arg, event, ctxDone, conn, err3, tmp, cycles, crashed >>

\* ------------------------------------------------------------ environment
\* The code that cancels a subscription sends on event.Unsubscribe ...
RequestUnsubscribe(e) ==
    /\ ~crashed
    /\ unsub[e] = "none"
    /\ Cardinality({d \in 1..Len(heap) : unsub[d] # "none"}) < MaxRequests
    /\ unsub' = [unsub EXCEPT ![e] = "sending"]
    /\ UNCHANGED << calls, heap, SubscriptionEvents, hub, hubChan, hubOut, Response,
                    pc, arg, event, ctxDone, conn, err3, tmp, cycles, crashed >>

\* ... and, its send received, goes on to receive the acknowledgment.
AwaitAck(e) ==
    /\ ~crashed
    /\ unsub[e] = "sent"
    /\ unsub' = [unsub EXCEPT ![e] = "receiving"]
    /\ UNCHANGED << calls, heap, SubscriptionEvents, hub, hubChan, hubOut, Response,
                    pc, arg, event, ctxDone, conn, err3, tmp, cycles, crashed >>

\* The hub's consumer receives from SubscriptionData.
HubReceive ==
    /\ ~crashed
    /\ hubChan # <<>>
    /\ hubOut' = Append(hubOut, Head(hubChan))
    /\ hubChan' = Tail(hubChan)
    /\ UNCHANGED << calls, heap, SubscriptionEvents, hub, Response, unsub,
                    pc, arg, event, ctxDone, conn, err3, tmp, cycles, crashed >>

\* ------------------------------------------------------------ query facade
\* Line 155: the capacity of the channel getUniversalCh makes.
ChCap == 1

\* What a run of makeHttpRequest comes to: the body is read, or http.NewRequest,
\* httpClient.Do or ioutil.ReadAll fails.
HttpOutcomes == {"ok", "request", "http", "read"}

\* Line 124: the error makeHttpRequest returns, whenever it returns.
MakeHttpRequestErr == "nil"

\* Lines 154-160: getUniversalCh makes the channel and starts the goroutine that
\* runs getResponse with it.
getUniversalCh(q) ==
    /\ ~crashed
    /\ calls[q].pc = "idle"
    /\ calls' = [calls EXCEPT ![q] = [NoCall EXCEPT !.pc = "http", !.ch = TRUE]]
    /\ UNCHANGED << heap, SubscriptionEvents, hub, hubChan, hubOut, Response, unsub,
                    pc, arg, event, ctxDone, conn, err3, tmp, cycles, crashed >>

\* Lines 163-165: getUniversal runs getResponse with a nil channel.
getUniversal(q) ==
    /\ ~crashed
    /\ calls[q].pc = "idle"
    /\ calls' = [calls EXCEPT ![q] = [NoCall EXCEPT !.pc = "http"]]
    /\ UNCHANGED << heap, SubscriptionEvents, hub, hubChan, hubOut, Response, unsub,
                    pc, arg, event, ctxDone, conn, err3, tmp, cycles, crashed >>

\* Lines 89-125: makeHttpRequest. Each of its failures ends in log.Fatalln, which
\* exits the process (a failed http.NewRequest ends it at line 110 already, in
\* the call on the nil request); otherwise it returns the body and a nil error.
makeHttpRequest(q) ==
    /\ ~crashed
    /\ calls[q].pc = "http"
    /\ \E o \in HttpOutcomes :
          IF o = "ok"
          THEN /\ calls' = [calls EXCEPT ![q].pc = "decode",
                                         ![q].err = MakeHttpRequestErr]
               /\ UNCHANGED crashed
          ELSE /\ calls' = [calls EXCEPT ![q].pc = "fatal", ![q].failed = o]
               /\ crashed' = TRUE
    /\ UNCHANGED << heap, SubscriptionEvents, hub, hubChan, hubOut, Response, unsub,
                    pc, arg, event, ctxDone, conn, err3, tmp, cycles >>

\* getResponse has the error e of the failure f: with a channel it goes on to send
\* nil on it, without one it returns (nil, e).
GetResponseFails(q, f, e) ==
    IF calls[q].ch
    THEN [calls EXCEPT ![q].pc = "send_nil", ![q].failed = f, ![q].err = e]
    ELSE [calls EXCEPT ![q].pc = "ret", ![q].failed = f, ![q].err = e,
                       ![q].ret = <<"nil", e>>]

\* Lines 128-147 and 151: the check of makeHttpRequest's error, and the decoding.
getResponse(q) ==
    /\ ~crashed
    /\ calls[q].pc = "decode"
    /\ IF calls[q].err # "nil"
       THEN calls' = GetResponseFails(q, "http", calls[q].err)
       ELSE \E decoded \in BOOLEAN :
               IF ~decoded
               THEN calls' = GetResponseFails(q, "decode", "err2")
               ELSE IF calls[q].ch
                    THEN calls' = [calls EXCEPT ![q].pc = "send"]
                    ELSE calls' = [calls EXCEPT ![q].pc = "ret",
                                                ![q].ret = <<"ds", "nil">>]
    /\ UNCHANGED << heap, SubscriptionEvents, hub, hubChan, hubOut, Response, unsub,
                    pc, arg, event, ctxDone, conn, err3, tmp, cycles, crashed >>

\* Lines 130-133 and 141-145: `ch <- nil`, and the return of (nil, err).
SendNil(q) ==
    /\ ~crashed
    /\ calls[q].pc = "send_nil"
    /\ Len(calls[q].buf) < ChCap
    /\ calls' = [calls EXCEPT ![q].buf = Append(@, "nil"), ![q].pc = "ret",
                              ![q].ret = <<"nil", calls[q].err>>]
    /\ UNCHANGED << heap, SubscriptionEvents, hub, hubChan, hubOut, Response, unsub,
                    pc, arg, event, ctxDone, conn, err3, tmp, cycles, crashed >>

\* Line 148: `ch <- &ds`.
SendResult(q) ==
    /\ ~crashed
    /\ calls[q].pc = "send"
    /\ Len(calls[q].buf) < ChCap
    /\ calls' = [calls EXCEPT ![q].buf = Append(@, "ds"), ![q].pc = "close"]
    /\ UNCHANGED << heap, SubscriptionEvents, hub, hubChan, hubOut, Response, unsub,
                    pc, arg, event, ctxDone, conn, err3, tmp, cycles, crashed >>

\* Lines 149-151: close(ch), and the return of (&ds, nil).
CloseCh(q) ==
    /\ ~crashed
    /\ calls[q].pc = "close"
    /\ calls' = [calls EXCEPT ![q].closed = TRUE, ![q].pc = "ret",
                              ![q].ret = <<"ds", "nil">>]
    /\ UNCHANGED << heap, SubscriptionEvents, hub, hubChan, hubOut, Response, unsub,
                    pc, arg, event, ctxDone, conn, err3, tmp, cycles, crashed >>

\* The caller of getUniversalCh receives a value from the channel it was given ...
ChReceive(q) ==
    /\ ~crashed
    /\ calls[q].ch
    /\ ~calls[q].done
    /\ calls[q].buf # <<>>
    /\ calls' = [calls EXCEPT ![q].got = Append(@, Head(calls[q].buf)),
                              ![q].buf = Tail(@)]
    /\ UNCHANGED << heap, SubscriptionEvents, hub, hubChan, hubOut, Response, unsub,
                    pc, arg, event, ctxDone, conn, err3, tmp, cycles, crashed >>

\* ... and, receiving again, finds the channel empty and closed.
ChClosed(q) ==
    /\ ~crashed
    /\ calls[q].ch
    /\ ~calls[q].done
    /\ calls[q].buf = <<>>
    /\ calls[q].closed
    /\ calls' = [calls EXCEPT ![q].done = TRUE]
    /\ UNCHANGED << heap, SubscriptionEvents, hub, hubChan, hubOut, Response, unsub,
                    pc, arg, event, ctxDone, conn, err3, tmp, cycles, crashed >>

\* ------------------------------------------------------------ specification
\* subscribe, with at most n loop iterations started.
Engine(p, n) ==
    \/ SubscribeEntry(p)
    \/ SelectDefault(p, n)
    \/ SelectUnsubscribe(p)
    \/ SelectCtxDone(p)
    \/ Dial(p)
    \/ Send(p)
    \/ Receive(p)
    \/ Close(p)
    \/ Count(p)
    \/ Deliver(p)
    \/ Sleep(p)
    \/ Ack(p)

\* Every step but the call of a Subscribe... function with a type and the fatal
\* error of the map race.
Common(n) ==
    \/ \E p \in Procs : SubscribeForEvent(p)
    \/ \E p \in Procs : GetEventLookup(p)
    \/ \E p \in Procs : GetEventInsert(p)
    \/ \E p \in Procs : Cancel(p)
    \/ \E p \in Procs : Engine(p, n)
    \/ \E e \in 1..Len(heap) : RequestUnsubscribe(e)
    \/ \E e \in 1..Len(heap) : AwaitAck(e)
    \/ HubReceive

Next ==
    \/ Common(MaxCycles)
    \/ \E p \in Procs, t \in CallTypes : SubscribeFor(p, t)
    \/ \E p \in Procs : MapRaceFatal(p)

Spec == Init /\ [][Next]_vars

\* The steps of an engine that need nothing but the goroutine being scheduled (the
\* select, the local statements, the timer, a rendezvous whose peer is waiting).
\* websocket.Dial/Send/Receive return when the network lets them (Receive has no
\* timeout), and the send of responseData completes when a consumer receives.
Scheduled(p, n) ==
    \/ SubscribeEntry(p)
    \/ SelectDefault(p, n)
    \/ SelectUnsubscribe(p)
    \/ SelectCtxDone(p)
    \/ Close(p)
    \/ Count(p)
    \/ Sleep(p)
    \/ Ack(p)

FairNext ==
    \/ Common(MaxFairCycles)
    \/ \E p \in Procs, t \in CallTypes : SubscribeFor(p, t)
    \/ \E p \in Procs : MapRaceFatal(p)

\* The Go scheduler runs every runnable goroutine; a requester that has sent its
\* request goes on to receive the acknowledgment.
FairSpec ==
    /\ Init
    /\ [][FairNext]_vars
    /\ \A p \in Procs : WF_vars(Scheduled(p, MaxFairCycles))
    /\ WF_vars(\E e \in 1..Len(heap) : AwaitAck(e))

\* Callers that call getEvent one at a time: no call begins while another goroutine
\* is inside getEvent.
SeqNext ==
    \/ Common(MaxCycles)
    \/ \E p \in Procs, t \in CallTypes :
          /\ \A q \in Procs : ~InGetEvent(q)
          /\ SubscribeFor(p, t)

SeqSpec == Init /\ [][SeqNext]_vars

\* The engines left to run: no context is cancelled, no unsubscribe is requested,
\* and no call is made with a nil event.
RunNext ==
    \/ \E p \in Procs, t \in CallTypes : SubscribeFor(p, t)
    \/ \E p \in Procs : GetEventLookup(p)
    \/ \E p \in Procs : GetEventInsert(p)
    \/ \E p \in Procs : SubscribeEntry(p)
    \/ \E p \in Procs : SelectDefault(p, MaxRunCycles)
    \/ \E p \in Procs : Dial(p)
    \/ \E p \in Procs : Send(p)
    \/ \E p \in Procs : Receive(p)
    \/ \E p \in Procs : Close(p)
    \/ \E p \in Procs : Count(p)
    \/ \E p \in Procs : Deliver(p)
    \/ \E p \in Procs : Sleep(p)
    \/ HubReceive

RunSpec == Init /\ [][RunNext]_vars

\* The goroutine that runs getResponse for the call q.
Goroutine(q) ==
    \/ makeHttpRequest(q)
    \/ getResponse(q)
    \/ SendNil(q)
    \/ SendResult(q)
    \/ CloseCh(q)

\* The consumer of the channel of the call q.
Consumer(q) == ChReceive(q) \/ ChClosed(q)

\* The query facade, which shares nothing with the registry and the engines but
\* the process.
QueryNext ==
    \/ \E q \in Calls : getUniversalCh(q)
    \/ \E q \in Calls : getUniversal(q)
    \/ \E q \in Calls : makeHttpRequest(q)
    \/ \E q \in Calls : getResponse(q)
    \/ \E q \in Calls : SendNil(q)
    \/ \E q \in Calls : SendResult(q)
    \/ \E q \in Calls : CloseCh(q)
    \/ \E q \in Calls : ChReceive(q)
    \/ \E q \in Calls : ChClosed(q)

QuerySpec == Init /\ [][QueryNext]_vars

\* The Go scheduler runs every runnable goroutine, the HTTP client's timeout makes
\* makeHttpRequest return, and the caller of getUniversalCh receives from its
\* channel until it is closed.
QueryFairSpec ==
    /\ Init
    /\ [][QueryNext]_vars
    /\ \A q \in Calls : WF_vars(Goroutine(q)) /\ WF_vars(Consumer(q))

\* ------------------------------------------------------------ properties
\* The goroutines that hold event e (they have entered subscribe with it).
EnginesOn(e) == {p \in Procs : event[p] = e}

SeqRange(s) == {s[i] : i \in 1..Len(s)}

\* Every payload handed over so far: to a consumer of an event.Response, into the
\* hub's channel, or on to the hub's consumer.
Delivered ==
    UNION {SeqRange(Response[e]) : e \in 1..Len(heap)}
        \cup SeqRange(hubChan) \cup SeqRange(hubOut)

\* The payloads handed over by the engines of event e.
DeliveredFor(e) == {m \in Delivered : event[m.cycle[1]] = e}

\* C1 (as claimed): an engine that entered its loop terminates only through the
\* unsubscribe handshake branch or the external-cancellation branch; a transport
\* error never terminates it.
C1_ExitOnlyByUnsubscribeOrCancel ==
    \A p \in Procs :
        (Terminated(p) /\ event[p] # Nil) => pc[p] \in {"ret_unsub", "ret_cancel"}

\* C2 (as claimed): when the engine is at its select with both the context done and
\* an unsubscribe request pending, its step is the cancellation branch.
C2_CancellationWins ==
    [][ \A p \in Procs :
          ( /\ pc[p] = "select"
            /\ CaseCtxDone(p)
            /\ CaseUnsubscribe(p)
            /\ pc'[p] # pc[p] ) => pc'[p] = "ret_cancel" ]_vars

\* C3 (as claimed): a cycle whose receive failed delivers nothing: no payload on an
\* event.Response or on the hub carries the zero message of a failed receive.
C3_FailedCycleDeliversNothing ==
    \A m \in Delivered : m.Data # "zero"

\* C4: with one engine on an event, event.Count never decreases, changes only in
\* the engine's Count step, there by exactly 1, and so equals the number of cycles
\* of that engine that passed line 218.
C4_CountedCycles(p) ==
    IF pc[p] \in {"dial", "send", "recv", "close", "count", "ret_dial"}
    THEN cycles[p] - 1 ELSE cycles[p]

C4_CountStep(p, e) == event[p] = e /\ pc[p] = "count" /\ pc'[p] = "deliver"

C4_CountIncreasesByOne ==
    /\ [](\A e \in 1..Len(heap) : \A p \in EnginesOn(e) :
            EnginesOn(e) = {p} => heap[e].Count = C4_CountedCycles(p))
    /\ [][ \A e \in 1..Len(heap) :
             Cardinality(EnginesOn(e)') <= 1 =>
               /\ heap'[e].Count >= heap[e].Count
               /\ \A p \in Procs :
                    C4_CountStep(p, e) => heap'[e].Count = heap[e].Count + 1
               /\ heap'[e].Count # heap[e].Count =>
                    \E p \in Procs : C4_CountStep(p, e) ]_vars

\* C4 witness: the only engine of an event has counted its second cycle.
C4_Witness ==
    \E e \in 1..Len(heap) :
        /\ Cardinality(EnginesOn(e)) = 1
        /\ heap[e].Count = 2
        /\ \E p \in EnginesOn(e) : pc[p] = "deliver"

\* C5 (as claimed): event.Count of an event with one engine equals the number of
\* payloads of successful cycles handed over for it.
C5_CountEqualsDelivered ==
    \A e \in 1..Len(heap) :
        Cardinality(EnginesOn(e)) <= 1 =>
            heap[e].Count = Cardinality({m \in DeliveredFor(e) : m.Data = "msg"})

\* p is the only engine its event has or will have: every other goroutine has
\* made its call and holds another event.
Sole(p) ==
    \A q \in Procs \ {p} :
        pc[q] \notin {"idle", "getEvent", "insert"} /\ event[q] # event[p]

\* No unsubscribe has been requested on p's event.
NoRequest(p) == event[p] = Nil \/ unsub[event[p]] = "none"

\* The engine p is in its post-delivery pause and a request is blocked on its
\* event's Unsubscribe channel.
MidPauseRequest(p) ==
    /\ pc[p] = "sleep"
    /\ unsub[event[p]] = "sending"
    /\ Sole(p)

\* A run in which no two events of one type were created and no payload of a failed
\* receive was handed over.
CleanRun ==
    /\ ~crashed
    /\ \A i, j \in 1..Len(heap) : heap[i].Type = heap[j].Type => i = j
    /\ \A m \in Delivered : m.Data = "msg"

\* C6 (as claimed): an unsubscribe requested in the pause always completes the
\* handshake: the engine terminates through the unsubscribe branch, acknowledged.
C6_MidPauseHandshakeCompletes ==
    \A p \in Procs :
        (CleanRun /\ MidPauseRequest(p)) ~>
            (pc[p] = "ret_unsub" /\ unsub[event[p]] = "acked")

\* C6 (amended): an unsubscribe requested in the pause terminates the engine, with
\* the handshake completed, or through the cancellation branch with the context
\* done; and from the pause on, with the request pending, received or acknowledged,
\* the engine starts no cycle, and its event gets no delivery and no increment.
C6_MidPauseUnsubscribeTerminates ==
    /\ \A p \in Procs :
         MidPauseRequest(p) ~>
            \/ pc[p] = "ret_unsub" /\ unsub[event[p]] = "acked"
            \/ pc[p] = "ret_cancel" /\ ctxDone[p]
    /\ [][ \A p \in Procs :
             ( /\ pc[p] \in {"sleep", "select", "ack", "ret_unsub", "ret_cancel"}
               /\ ~NoRequest(p)
               /\ Sole(p) ) =>
                 /\ pc'[p] \in {"sleep", "select", "ack", "ret_unsub", "ret_cancel"}
                 /\ heap'[event[p]].Count = heap[event[p]].Count
                 /\ DeliveredFor(event[p])' = DeliveredFor(event[p]) ]_vars

\* C6 witness: the only engine of an event has delivered, and has terminated
\* through the handshake, acknowledged.
C6_Witness ==
    \E p \in Procs :
        /\ pc[p] = "ret_unsub"
        /\ unsub[event[p]] = "acked"
        /\ Sole(p)
        /\ DeliveredFor(event[p]) # {}

\* C7 (as claimed): the registry never holds, and no two callers ever obtain, two
\* events of one type.
C7_OneEventPerType ==
    /\ \A i, j \in 1..Len(heap) : heap[i].Type = heap[j].Type => i = j
    /\ \A p, q \in Procs :
         ( /\ event[p] # Nil
           /\ event[q] # Nil
           /\ arg[p] = arg[q] ) => event[p] = event[q]

\* C8: with getEvent called by one caller at a time, there is one event per type,
\* every caller holds the registry's entry of its type, a lookup of a present type
\* returns the entry and changes nothing, and a lookup of an absent type inserts
\* a fresh event (Count 0, Subscribed false).
C8_SequentialLookupsIdentical ==
    /\ [](\A i, j \in 1..Len(heap) : heap[i].Type = heap[j].Type => i = j)
    /\ [](\A p \in Procs :
            (pc[p] \notin {"idle", "getEvent", "insert"} /\ arg[p] # "") =>
                event[p] = SubscriptionEvents[arg[p]])
    /\ [][ \A p \in Procs :
             (pc[p] \in {"getEvent", "insert"} /\ pc'[p] = "subscribe") =>
                IF SubscriptionEvents[arg[p]] # Nil
                THEN /\ event'[p] = SubscriptionEvents[arg[p]]
                     /\ heap' = heap
                     /\ SubscriptionEvents' = SubscriptionEvents
                ELSE /\ event'[p] \notin 1..Len(heap)
                     /\ SubscriptionEvents'[arg[p]] = event'[p]
                     /\ heap'[event'[p]].Type = arg[p]
                     /\ heap'[event'[p]].Count = 0
                     /\ heap'[event'[p]].Subscribed = FALSE
                     /\ SubSeq(heap', 1, Len(heap)) = heap ]_vars

\* C8 witness: a lookup has returned the event whose engine has delivered and
\* terminated.
C8_Witness ==
    \E p, q \in Procs :
        /\ p # q
        /\ Terminated(p)
        /\ event[p] # Nil
        /\ heap[event[p]].Count >= 1
        /\ pc[q] = "subscribe"
        /\ event[q] = event[p]

\* C9 (as claimed): once the context is done, with no unsubscribe requested, the
\* engine terminates, whatever it was doing.
C9_CancelAlwaysTerminates ==
    \A p \in Procs :
        (ctxDone[p] /\ InSubscribe(p) /\ NoRequest(p)) ~>
            (Terminated(p) \/ ~NoRequest(p))

\* C9 (amended): once the context is done, with no unsubscribe requested, an
\* engine at its entry, at its select or in its pause terminates through the
\* cancellation branch (a nil event through the nil check); the step it takes at
\* the select is the cancellation branch; and without a request it never sends an
\* acknowledgment.
C9_CancelTerminatesAtSelect ==
    /\ \A p \in Procs :
         (ctxDone[p] /\ pc[p] \in {"subscribe", "select", "sleep"} /\ NoRequest(p)) ~>
            (pc[p] \in {"ret_cancel", "ret_nil"} \/ ~NoRequest(p))
    /\ [](\A p \in Procs : NoRequest(p) => pc[p] \notin {"ack", "ret_unsub"})
    /\ [][ \A p \in Procs :
             ( /\ pc[p] = "select"
               /\ ctxDone[p]
               /\ NoRequest(p)
               /\ pc'[p] # pc[p] ) => pc'[p] = "ret_cancel" ]_vars

\* C9 witness: an engine cancelled in its pause, no unsubscribe requested, has
\* terminated through the cancellation branch.
C9_Witness ==
    \E p \in Procs :
        /\ pc[p] = "ret_cancel"
        /\ NoRequest(p)
        /\ cycles[p] >= 1

\* C10: a call with a nil event returns from the nil check: it opens no connection,
\* starts no cycle, delivers nothing, and its step changes neither the registry,
\* nor an event, nor a channel, and does not crash.
C10_NilEventIsNoOp ==
    /\ [](\A p \in Procs :
            (event[p] = Nil /\ pc[p] \notin {"idle", "getEvent", "insert"}) =>
                /\ pc[p] \in {"subscribe", "ret_nil"}
                /\ conn[p] = 0
                /\ cycles[p] = 0
                /\ \A m \in Delivered : m.cycle[1] # p)
    /\ [][ \A p \in Procs :
             (event[p] = Nil /\ pc[p] = "subscribe" /\ pc'[p] # pc[p]) =>
                /\ pc'[p] = "ret_nil"
                /\ UNCHANGED << heap, SubscriptionEvents, hubChan, hubOut, Response,
                                unsub, conn, crashed >> ]_vars

\* C10 witness: a call with a nil event and a cancelled context has returned.
C10_Witness ==
    \E p \in Procs : pc[p] = "ret_nil" /\ event[p] = Nil /\ ctxDone[p]

\* ------------------------------------------------------------ delivery
\* No value occurs twice in s.
NoDup(s) == \A i, j \in 1..Len(s) : s[i] = s[j] => i = j

\* What the hub has been sent, in the order of the sends.
HubLog == hubOut \o hubChan

\* Deliveries the engine p has completed: its started loop iterations, less the
\* one it is inside or left at the failed dial.
Completed(p) ==
    IF pc[p] \in {"dial", "send", "recv", "close", "count", "deliver", "ret_dial"}
    THEN cycles[p] - 1 ELSE cycles[p]

\* Deliveries completed by the engines ps, together.
RECURSIVE CyclesDone(_)
CyclesDone(ps) ==
    IF ps = {} THEN 0
    ELSE LET q == CHOOSE q \in ps : TRUE IN Completed(q) + CyclesDone(ps \ {q})

\* C11: every payload handed over carries the client's endpoint and the type of
\* the event of the engine that produced it, and is in one place only: with a hub
\* every payload is on the hub and no event.Response got any; without a hub the
\* hub got none and every payload is on the Response of its engine's own event.
C11_SingleDestination ==
    /\ \A m \in Delivered :
          /\ m.Host = Endpoint
          /\ m.Type = heap[event[m.cycle[1]]].Type
    /\ hub => \A e \in 1..Len(heap) : Response[e] = <<>>
    /\ ~hub => /\ HubLog = <<>>
               /\ \A e \in 1..Len(heap) : \A m \in SeqRange(Response[e]) :
                     event[m.cycle[1]] = e
    /\ NoDup(HubLog)
    /\ \A e \in 1..Len(heap) : NoDup(Response[e])
    /\ \A e, d \in 1..Len(heap) :
          e # d => SeqRange(Response[e]) \cap SeqRange(Response[d]) = {}

\* C11 witness: without a hub, two events of different types have each got a
\* payload on their own Response.
C11_Witness ==
    /\ ~hub
    /\ \E e, d \in 1..Len(heap) :
          /\ heap[e].Type # heap[d].Type
          /\ Response[e] # <<>>
          /\ Response[d] # <<>>

\* C13: with a hub, the hub has been sent exactly one payload for every delivery
\* an engine completed, each labelled with the type of that engine's event, none
\* twice; so per type the hub got as many payloads as deliveries were completed.
C13_HubGetsOnePerDelivery ==
    hub =>
        /\ NoDup(HubLog)
        /\ \A m \in SeqRange(HubLog) : m.Type = heap[event[m.cycle[1]]].Type
        /\ \A p \in Procs :
              Cardinality({m \in SeqRange(HubLog) : m.cycle[1] = p}) = Completed(p)
        /\ \A t \in Types :
              Cardinality({m \in SeqRange(HubLog) : m.Type = t}) =
                  CyclesDone({p \in Procs : event[p] # Nil /\ heap[event[p]].Type = t})

\* C13 witness: two engines of different types have each delivered once, and the
\* hub's consumer has received both payloads, the SyncUpdate one first.
C13_Witness ==
    /\ hub
    /\ Len(hubOut) = 2
    /\ hubOut[1].Type = "SyncUpdate"
    /\ hubOut[2].Type = "NewBlock"
    /\ hubOut[1].cycle[1] # hubOut[2].cycle[1]

\* ------------------------------------------------------------ query facade
\* C12 (as claimed): the channel of every call of getUniversalCh receives exactly
\* one value and is then closed: its consumer, receiving until the channel is
\* closed, finishes, having received one value. (Stated for the runs in which the
\* process lives: those that log.Fatalln ends are left aside.)
C12_OneShotFuture ==
    \A q \in Calls :
        (calls[q].ch /\ calls[q].pc # "idle") ~>
            (crashed \/ (calls[q].done /\ Len(calls[q].got) = 1))

\* C14 (as claimed): a call of getUniversal in which the HTTP round trip, the
\* reading of the body or the decoding failed has returned a nil result with a
\* non-nil error, and the process runs.
C14_FailureIsReturned ==
    \A q \in Calls :
        (~calls[q].ch /\ calls[q].failed # "none") =>
            /\ calls[q].pc = "ret"
            /\ calls[q].ret[1] = "nil"
            /\ calls[q].ret[2] # "nil"
            /\ ~crashed

\* ------------------------------------------------------------ handshake
\* p is the only goroutine that holds its event.
Single(p) == event[p] # Nil /\ EnginesOn(event[p]) = {p}

\* C15: for an event with one engine, the unsubscribe branch is a two-way
\* rendezvous. The engine enters the handshake only by receiving the requester's
\* send at its select; in the handshake the request has been received and not yet
\* acknowledged; the engine leaves the handshake only in the step in which the
\* requester receives the acknowledgment, and then it has returned; it has returned
\* through this branch only with the acknowledgment received; and while it is in
\* the handshake its event gets no delivery and no increment. So with a requester
\* that does not receive, the engine stays in the handshake.
C15_TwoWayRendezvous ==
    /\ [](\A p \in Procs : Single(p) =>
            /\ pc[p] = "ack" => unsub[event[p]] \in {"sent", "receiving"}
            /\ pc[p] = "ret_unsub" => unsub[event[p]] = "acked")
    /\ [][ \A p \in Procs : (Single(p) /\ Single(p)') =>
             /\ (pc[p] # "ack" /\ pc'[p] = "ack") =>
                    /\ pc[p] = "select"
                    /\ unsub[event[p]] = "sending"
                    /\ unsub'[event[p]] = "sent"
             /\ (pc[p] = "ack" /\ pc'[p] # "ack") =>
                    /\ pc'[p] = "ret_unsub"
                    /\ unsub[event[p]] = "receiving"
                    /\ unsub'[event[p]] = "acked"
             /\ (pc[p] = "ack" /\ unsub[event[p]] = "sent") =>
                    (pc'[p] = "ack" /\ unsub'[event[p]] \in {"sent", "receiving"})
             /\ pc[p] = "ack" =>
                    /\ heap'[event[p]] = heap[event[p]]
                    /\ DeliveredFor(event[p])' = DeliveredFor(event[p]) ]_vars

\* C15 witness: the only engine of an event has delivered, has received a request,
\* and is blocked in its acknowledgment, its context done, the requester not
\* receiving.
C15_Witness ==
    \E p \in Procs :
        /\ Single(p)
        /\ pc[p] = "ack"
        /\ unsub[event[p]] = "sent"
        /\ ctxDone[p]
        /\ Completed(p) >= 1

\* The steps that complete a communication on the Unsubscribe channel of p's event:
\* the engine p receives the requester's send; the requester receives p's
\* acknowledgment; the engine p receives the acknowledgment of the engine q.
RequestToEngine(p) ==
    /\ pc[p] = "select" /\ pc'[p] = "ack"
    /\ unsub[event[p]] = "sending" /\ unsub'[event[p]] = "sent"

AckToRequester(p) ==
    /\ pc[p] = "ack" /\ pc'[p] = "ret_unsub"
    /\ unsub[event[p]] = "receiving" /\ unsub'[event[p]] = "acked"

AckToEngine(q, p) ==
    /\ q # p /\ event[q] = event[p]
    /\ pc[q] = "ack" /\ pc'[q] = "ret_unsub"
    /\ pc[p] = "select" /\ pc'[p] = "ack"
    /\ unsub' = unsub

\* C16 (as claimed): on an event's cancel channel only the requester sends and only
\* the engine receives: no engine completes a send on it, and no requester
\* completes a receive from it.
C16_SingleDirection ==
    [][ /\ \A p \in Procs : pc[p] = "ack" => pc'[p] = "ack"
        /\ \A e \in 1..Len(heap) : unsub[e] = "receiving" => unsub'[e] = "receiving"
      ]_vars

\* C16 (amended): the channel carries values both ways. An engine enters the
\* handshake only by receiving on its own event's channel, the requester's send or
\* the acknowledgment of another engine of the same event, and leaves it only by
\* its acknowledgment being received, by the requester or by another engine of the
\* same event; the requester's send is received only by an engine of the event, and
\* the requester receives only an acknowledgment of an engine of the event; with
\* one engine on the event, engine and requester only exchange with each other.
C16_RequestAndAckFlows ==
    [][ /\ \A p \in Procs :
             /\ (pc[p] # "ack" /\ pc'[p] = "ack") =>
                    (RequestToEngine(p) \/ \E q \in Procs : AckToEngine(q, p))
             /\ (pc[p] = "ack" /\ pc'[p] # "ack") =>
                    (AckToRequester(p) \/ \E q \in Procs : AckToEngine(p, q))
             /\ (Single(p) /\ pc[p] # "ack" /\ pc'[p] = "ack") => RequestToEngine(p)
             /\ (Single(p) /\ pc[p] = "ack" /\ pc'[p] # "ack") => AckToRequester(p)
        /\ \A e \in 1..Len(heap) :
             /\ (unsub[e] = "sending" /\ unsub'[e] # "sending") =>
                    \E p \in EnginesOn(e) : RequestToEngine(p)
             /\ (unsub[e] = "receiving" /\ unsub'[e] # "receiving") =>
                    \E p \in EnginesOn(e) : AckToRequester(p)
             /\ unsub'[e] # unsub[e] =>
                    << unsub[e], unsub'[e] >> \in
                        { <<"none", "sending">>, <<"sending", "sent">>,
                          <<"sent", "receiving">>, <<"receiving", "acked">> }
      ]_vars

\* C16 witness: two engines of one event have both returned through the
\* unsubscribe branch on a single request: one acknowledgment went to the other
\* engine, the other to the requester.
C16_Witness ==
    \E p, q \in Procs :
        /\ p # q
        /\ event[p] # Nil
        /\ event[p] = event[q]
        /\ pc[p] = "ret_unsub"
        /\ pc[q] = "ret_unsub"
        /\ unsub[event[p]] = "acked"

\* ------------------------------------------------------------ Subscribed
\* C17 (as claimed): an engine that has entered subscribe with an event has marked
\* the event subscribed before its select examines a signal: once its first select
\* has taken a branch, whichever, the event is subscribed.
C17_SubscribedOnEntry ==
    \A p \in Procs :
        ( /\ event[p] # Nil
          /\ InSubscribe(p) \/ Terminated(p)
          /\ pc[p] # "subscribe"
          /\ ~(pc[p] = "select" /\ cycles[p] = 0) ) => heap[event[p]].Subscribed

\* C17 (amended): an event is subscribed exactly when an engine of it has taken
\* the default branch of its select; the flag is set in that step only, and never
\* reset, neither by a cycle nor by the return of the engine.
C17_SubscribedOnFirstCycle ==
    /\ [](\A e \in 1..Len(heap) :
            heap[e].Subscribed <=> \E p \in EnginesOn(e) : cycles[p] >= 1)
    /\ [][ \A e \in 1..Len(heap) :
             /\ heap[e].Subscribed => heap'[e].Subscribed
             /\ (~heap[e].Subscribed /\ heap'[e].Subscribed) =>
                    \E p \in EnginesOn(e) :
                        pc[p] = "select" /\ CaseDefault(p) /\ pc'[p] = "dial" ]_vars

\* C17 witness: an engine whose context was done at its first select has returned
\* with its event not subscribed, and the event of another engine, which has
\* returned after a cycle, is subscribed still.
C17_Witness ==
    \E p, q \in Procs :
        /\ event[p] # Nil /\ event[q] # Nil
        /\ pc[p] = "ret_cancel" /\ cycles[p] = 0
        /\ ~heap[event[p]].Subscribed
        /\ Terminated(q) /\ cycles[q] >= 1
        /\ heap[event[q]].Subscribed

\* ------------------------------------------------------------ connection
\* C18: an engine holds a connection exactly from the successful Dial of a cycle
\* to the Close of the same cycle, and then one only: it holds one while it sends
\* and receives and until line 210, whatever Send and Receive returned, and none
\* at its select, while it counts, delivers and pauses, in the handshake, and
\* once it has returned.
C18_ConnectionClosedInCycle ==
    \A p \in Procs :
        /\ conn[p] <= 1
        /\ conn[p] = 1 <=> pc[p] \in {"send", "recv", "close"}
        /\ (pc[p] \in {"select", "count", "deliver", "sleep", "ack"} \/ Terminated(p))
              => conn[p] = 0

\* C18 witness: an engine is delivering the payload of its second cycle, whose
\* receive failed, and holds no connection.
C18_Witness ==
    \E p \in Procs :
        /\ pc[p] = "deliver"
        /\ cycles[p] = 2
        /\ err3[p]
        /\ conn[p] = 0

\* ------------------------------------------------------------ order, backpressure
\* The payloads of the engine p among those of s, in the order of s.
RECURSIVE PayloadsOf(_, _)
PayloadsOf(p, s) ==
    IF s = <<>> THEN <<>>
    ELSE IF Head(s).cycle[1] = p
         THEN <<Head(s)>> \o PayloadsOf(p, Tail(s))
         ELSE PayloadsOf(p, Tail(s))

\* Where the payloads of p's event go: the hub, or the event's Response.
Destination(p) == IF hub THEN HubLog ELSE Response[event[p]]

\* C19: on its destination, the hub shared with other engines or the event's own
\* Response, the payloads of an event driven by one engine are in the order of
\* that engine's cycles: the i-th is the payload of its i-th cycle, and there are
\* as many as deliveries it completed.
C19_DeliveryOrder ==
    \A p \in Procs :
        Single(p) =>
            LET mine == PayloadsOf(p, Destination(p)) IN
            /\ Len(mine) = Completed(p)
            /\ \A i \in 1..Len(mine) :
                  /\ mine[i].cycle = <<p, i>>
                  /\ mine[i].Type = heap[event[p]].Type

\* C19 witness: the hub's consumer has received the payloads of an engine's first
\* and second cycle, and between them a payload of another engine.
C19_Witness ==
    /\ hub
    /\ Len(hubOut) = 3
    /\ \E p, q \in Procs :
          /\ p # q
          /\ Single(p)
          /\ hubOut[1].cycle = <<p, 1>>
          /\ hubOut[2].cycle = <<q, 1>>
          /\ hubOut[3].cycle = <<p, 2>>

\* Cycles whose connection the engine p has closed: its started loop iterations,
\* less the one whose transport session it is in or left at the failed dial.
Produced(p) ==
    IF pc[p] \in {"dial", "send", "recv", "close", "ret_dial"}
    THEN cycles[p] - 1 ELSE cycles[p]

\* Payloads of the engine p accepted downstream: in the hub's channel, received by
\* the hub's consumer, or received by the consumer of an event.Response.
Accepted(p) == Cardinality({m \in Delivered : m.cycle[1] = p})

\* C20: an engine has at most one payload produced and not yet accepted, it has
\* one only between line 210 and the completion of its send, and none when it
\* opens a connection; the hub's channel never holds more than its capacity.
C20_Backpressure ==
    /\ Len(hubChan) <= HubCap
    /\ \A p \in Procs :
          /\ Accepted(p) <= Produced(p)
          /\ Produced(p) <= Accepted(p) + 1
          /\ Produced(p) = Accepted(p) + 1 <=> pc[p] \in {"count", "deliver"}
          /\ pc[p] \in {"dial", "send", "recv", "close"} => Produced(p) = Accepted(p)

\* C20 witness: the hub's channel is full of an engine's first payload, which its
\* consumer has not received, and the engine is blocked sending its second.
C20_Witness ==
    \E p \in Procs :
        /\ hub
        /\ Len(hubChan) = HubCap
        /\ hubOut = <<>>
        /\ pc[p] = "deliver"
        /\ cycles[p] = 2
        /\ Accepted(p) = 1

=============================================================================
